---------------------------- MODULE Spec2Model ----------------------------
(***************************************************************************)
(* Telegram -> ChatGPT/Claude/Cursor bridge: the directory-backed task     *)
(* queue (tasks/inbox, tasks/processing, tasks/planning, tasks/done,       *)
(* tasks/archive), the three runners that drain it (claude_runner,         *)
(* claude_desktop_runner, pipeline_orchestrator), the git working copy     *)
(* they operate on and the notifications they emit.                        *)
(*                                                                         *)
(* A text is a sequence of one-character strings; a directive is a         *)
(* sequence of code points and a record file a sequence of bytes.          *)
(* One handler of the source is one action: the directory listing, the     *)
(* move into processing, the task attempt and the final move are the       *)
(* steps of a poll loop, and steps of different processes interleave.      *)
(***************************************************************************)
EXTENDS Naturals, Integers, Sequences, FiniteSets, TLC

(***************************************************************************)
(* Bounds of the model.                                                    *)
(***************************************************************************)
\* number of record ids (task-<uuid>) the producer can draw
NumRecords == 2
\* number of branch names uuid4().hex[:8] / int(time.time()) can produce
NumBranchNames == 2
\* number of window pulls before the desktop runner's wait times out
\* (PULL_TIMEOUT / PULL_INTERVAL in the source)
MaxPolls == 2
MaxNotes == 2

Ids == 1..NumRecords
\* the random or clock-derived part of a branch name
BranchSuffixes == 1..NumBranchNames
Runners == {"claude", "desktop", "pipeline"}
\* the runners that apply patches to the working copy
PatchRunners == {"claude", "desktop"}
DEFAULT_BRANCH == <<"main">>

(***************************************************************************)
(* Texts.                                                                  *)
(***************************************************************************)
None == <<"None">>

\* characters str.strip() removes
Whitespace == {" ", "\n", "\t", "\r"}

RECURSIVE LStrip(_)
LStrip(s) ==
    IF s = <<>> THEN s
    ELSE IF Head(s) \in Whitespace THEN LStrip(Tail(s)) ELSE s

RECURSIVE RStrip(_)
RStrip(s) ==
    IF s = <<>> THEN s
    ELSE IF s[Len(s)] \in Whitespace THEN RStrip(SubSeq(s, 1, Len(s) - 1)) ELSE s

Strip(s) == RStrip(LStrip(s))

StartsWith(s, p) == Len(s) >= Len(p) /\ SubSeq(s, 1, Len(p)) = p

\* str.rfind: the highest 0-based index at which p occurs in s, or -1
RFind(s, p) ==
    LET hits == {i \in 0..(Len(s) - Len(p)) : SubSeq(s, i + 1, i + Len(p)) = p}
    IN  IF hits = {} THEN -1 ELSE CHOOSE i \in hits : \A j \in hits : j <= i

Max2(a, b) == IF a >= b THEN a ELSE b

P_DIFF_GIT == <<"d", "i", "f", "f", " ", "-", "-", "g", "i", "t">>
P_INDEX == <<"I", "n", "d", "e", "x", ":">>
P_DASHES == <<"-", "-", "-">>
P_PLUSES == <<"+", "+", "+">>
valid_starts == {P_DIFF_GIT, P_INDEX, P_DASHES, P_PLUSES}

\* TaskProcessor._is_valid_patch (claude_runner)
\* (variant: the text is not stripped before the comparison)
IsValidPatch_Unstripped(patch) == \E s \in valid_starts : StartsWith(patch, s)
IsValidPatch(patch) == \E s \in valid_starts : StartsWith(Strip(patch), s)

\* `not patch.strip()`
Blank(patch) == Strip(patch) = <<>>

\* ClaudeImplementer._is_valid_patch (pipeline_orchestrator)
ImplementerIsValidPatch(patch) ==
    IF Blank(patch) THEN FALSE
    ELSE \E s \in valid_starts : StartsWith(Strip(patch), s)

X_DASHES_SP == <<"-", "-", "-", " ">>
X_NL_DIFF_GIT == <<"\n", "d", "i", "f", "f", " ", "-", "-", "g", "i", "t", " ">>
X_NL_DASHES == <<"\n", "-", "-", "-", " ">>

\* extract_patch (claude_desktop_runner); None when no patch is found
extract_patch(text) ==
    IF text = <<>> THEN None
    ELSE LET t == Strip(text)
             i == Max2(RFind(t, X_NL_DIFF_GIT), RFind(t, X_NL_DASHES))
         IN  IF StartsWith(t, P_DIFF_GIT) \/ StartsWith(t, X_DASHES_SP) THEN t
             ELSE IF i = -1 THEN None
             ELSE SubSeq(t, i + 2, Len(t))

\* outputs of the generative collaborator
T_EMPTY == <<>>
T_BLANK == <<" ", "\n">>
T_DIFF == <<"d", "i", "f", "f", " ", "-", "-", "g", "i", "t", " ", "a", " ", "b">>
T_WS_DASHES == <<" ", "\n", "-", "-", "-", " ", "a">>
T_INDEX == <<"I", "n", "d", "e", "x", ":", " ", "a">>
T_PLUSES == <<"+", "+", "+", " ", "b", "\t">>
T_PROSE == <<"o", "k">>
T_TWO_DASHES == <<"-", "-", " ", "a">>
T_PROSE_THEN_PATCH == <<"o", "k", "\n", "-", "-", "-", " ", "a">>
T_FENCED == <<"#", "d", "i", "f", "f", " ", "-", "-", "g", "i", "t">>
PatchTexts == {T_EMPTY, T_BLANK, T_DIFF, T_WS_DASHES, T_INDEX, T_PLUSES,
               T_PROSE, T_TWO_DASHES, T_PROSE_THEN_PATCH, T_FENCED}

(***************************************************************************)
(* Record files: json.dumps(card, ensure_ascii=False) written with the     *)
(* default platform encoding, read back as UTF-8.                          *)
(***************************************************************************)
Locales == {"utf-8", "cp1252"}

\* directives (code points): "a" and "a" followed by e-acute
D_ASCII == <<97>>
D_LATIN == <<97, 233>>
Directives == {D_ASCII, D_LATIN}

EncodeChar(cp, locale) ==
    IF cp < 128 THEN <<cp>>
    ELSE IF locale = "cp1252" THEN <<cp>>
    ELSE <<192 + (cp \div 64), 128 + (cp % 64)>>

RECURSIVE Encode(_, _)
Encode(text, locale) ==
    IF text = <<>> THEN <<>>
    ELSE EncodeChar(Head(text), locale) \o Encode(Tail(text), locale)

IsContinuation(b) == b >= 128 /\ b <= 191

\* bytes.decode("utf-8") succeeds
RECURSIVE Utf8Valid(_)
Utf8Valid(bytes) ==
    IF bytes = <<>> THEN TRUE
    ELSE LET b == Head(bytes) IN
         IF b < 128 THEN Utf8Valid(Tail(bytes))
         ELSE IF b >= 194 /\ b <= 223
              THEN Len(bytes) >= 2 /\ IsContinuation(bytes[2])
                   /\ Utf8Valid(SubSeq(bytes, 3, Len(bytes)))
         ELSE IF b >= 224 /\ b <= 239
              THEN Len(bytes) >= 3 /\ IsContinuation(bytes[2]) /\ IsContinuation(bytes[3])
                   /\ Utf8Valid(SubSeq(bytes, 4, Len(bytes)))
         ELSE FALSE

Kinds == {"task", "note"}
NoCard == [created |-> 0, mtime |-> 0, kind |-> "none", bytes |-> <<>>]

\* new_card + write_text: the file the producer leaves in the inbox
new_card(kind, text, ts, locale) ==
    [created |-> ts, mtime |-> ts, kind |-> kind, bytes |-> Encode(text, locale)]

\* json.loads(path.read_text(encoding="utf-8")) returns a card: the bytes decode
\* and hold the whole document (a file that write_text has opened and not yet
\* filled is empty, on which json.loads raises)
Readable(c) == c.bytes # <<>> /\ Utf8Valid(c.bytes)

\* bytes.decode(encoding) of bytes the encoding accepts
RECURSIVE Decode(_, _)
Decode(bytes, encoding) ==
    IF bytes = <<>> THEN <<>>
    ELSE IF encoding = "cp1252" \/ Head(bytes) < 128
         THEN <<Head(bytes)>> \o Decode(Tail(bytes), encoding)
         ELSE <<(Head(bytes) - 192) * 64 + (bytes[2] - 128)>>
              \o Decode(SubSeq(bytes, 3, Len(bytes)), encoding)

(***************************************************************************)
(* The git working copy of REPO_PATH.  branch: the checked-out branch;     *)
(* branches: the branch names that exist; staged: what the index holds     *)
(* beyond HEAD ("patch": the changes of the applied patch, "scratch": the  *)
(* scratch patch file); scratch: the scratch patch file exists in the      *)
(* working tree; unstaged: the working tree differs from the index;        *)
(* commits: the commits made, each with the branch it was made on;         *)
(* tip[b]: the paths that the newest commit of branch b changed.           *)
(* A working record w carries the working copy and the commands run.       *)
(***************************************************************************)
Op(w, name, g2) == [g |-> g2, ops |-> Append(w.ops, name)]

\* what the newest commit of the repository changed before any runner commits
BASE_STAT == {"base"}

Clean(g) == g.staged = {} /\ ~g.unstaged /\ ~g.scratch

\* GitRepo.ensure_clean: git reset --hard; git clean -fd
ensure_clean(w) ==
    LET w1 == Op(w, "reset", [w.g EXCEPT !.staged = {}, !.unstaged = FALSE])
    IN  Op(w1, "clean", [w1.g EXCEPT !.scratch = FALSE])

\* GitRepo.checkout_branch(DEFAULT_BRANCH): git checkout <default>
checkout_default(w) ==
    Op(w, "checkout_default",
       IF w.g.staged = {} /\ ~w.g.unstaged /\ DEFAULT_BRANCH \in w.g.branches
       THEN [w.g EXCEPT !.branch = DEFAULT_BRANCH] ELSE w.g)

\* git checkout -b <name>: fails when the name is taken
checkout_new(w, name) ==
    Op(w, "checkout_new",
       IF name \in w.g.branches THEN w.g
       ELSE [w.g EXCEPT !.branch = name, !.branches = @ \cup {name},
                        !.tip = [b \in w.g.branches \cup {name} |->
                                    IF b = name THEN w.g.tip[w.g.branch] ELSE w.g.tip[b]]])

\* GitRepo.create_branch / git_create_branch: no exit status is looked at
create_branch(w, name) ==
    checkout_new(Op(checkout_default(ensure_clean(w)), "pull",
                    checkout_default(ensure_clean(w)).g), name)

\* whether a command of create_branch exits nonzero in working copy g: the checkout
\* of a default branch the repository does not have, or git checkout -b of a name
\* that is taken
CreateFails(g, name) == DEFAULT_BRANCH \notin g.branches \/ name \in g.branches

\* what the patch tool does with a patch in this working copy
ApplyModes == {"strict", "fix", "fail"}

\* exit status of `git apply --index` and of `git apply --index --whitespace=fix`
StrictStatus(mode) == IF mode = "strict" THEN 0 ELSE 1
FixStatus(mode) == IF mode = "fix" THEN 0 ELSE 1

GitApply(w, name, status) ==
    Op(w, name, IF status = 0 THEN [w.g EXCEPT !.staged = @ \cup {"patch"}] ELSE w.g)

\* GitRepo.apply_patch / git_apply_patch: [w, ok]
\* (variant: the whitespace-tolerant attempt runs whatever the first attempt
\* returned, and once more when it fails)
apply_patch_FixAlways(w, mode) ==
    LET w1 == Op(w, "write_scratch", [w.g EXCEPT !.scratch = TRUE])
        w2 == GitApply(w1, "apply", StrictStatus(mode))
        w3 == GitApply(w2, "apply_fix", FixStatus(mode))
        w3b == IF mode = "fail" THEN GitApply(w3, "apply_fix", FixStatus(mode)) ELSE w3
        rc == IF mode = "fail" THEN 1 ELSE 0
        w4 == IF rc = 0
              THEN Op(w3b, "add_all", [w3b.g EXCEPT !.staged = @ \cup {"scratch"}])
              ELSE w3b
        w5 == Op(w4, "unlink_scratch",
                 [w4.g EXCEPT !.scratch = FALSE, !.unstaged = ("scratch" \in w4.g.staged)])
    IN  [w |-> w5, ok |-> (rc = 0)]
\* (variant: no whitespace-tolerant second attempt)
apply_patch_NoRetry(w, mode) ==
    LET w1 == Op(w, "write_scratch", [w.g EXCEPT !.scratch = TRUE])
        w2 == GitApply(w1, "apply", StrictStatus(mode))
        rc == StrictStatus(mode)
        w4 == IF rc = 0
              THEN Op(w2, "add_all", [w2.g EXCEPT !.staged = @ \cup {"scratch"}])
              ELSE w2
        w5 == Op(w4, "unlink_scratch",
                 [w4.g EXCEPT !.scratch = FALSE, !.unstaged = ("scratch" \in w4.g.staged)])
    IN  [w |-> w5, ok |-> (rc = 0)]
apply_patch(w, mode) ==
    LET w1 == Op(w, "write_scratch", [w.g EXCEPT !.scratch = TRUE])
        w2 == GitApply(w1, "apply", StrictStatus(mode))
        w3 == IF StrictStatus(mode) # 0 THEN GitApply(w2, "apply_fix", FixStatus(mode)) ELSE w2
        rc == IF StrictStatus(mode) # 0 THEN FixStatus(mode) ELSE StrictStatus(mode)
        w4 == IF rc = 0
              THEN Op(w3, "add_all", [w3.g EXCEPT !.staged = @ \cup {"scratch"}])
              ELSE w3
        w5 == Op(w4, "unlink_scratch",
                 [w4.g EXCEPT !.scratch = FALSE, !.unstaged = ("scratch" \in w4.g.staged)])
    IN  [w |-> w5, ok |-> (rc = 0)]

\* what path.write_text(patch) does: writes the file; raises before the file is
\* created; raises after it was created (a partial file)
WriteOutcomes == {"ok", "unopened", "partial"}

\* GitRepo.apply_patch with the write inside its try: the finally block unlinks
\* the scratch file when it exists, also when write_text raised
repo_apply_patch(w, mode, wr) ==
    IF wr = "ok" THEN apply_patch(w, mode) @@ [raised |-> FALSE]
    ELSE LET w1 == Op(w, "write_scratch", [w.g EXCEPT !.scratch = (wr = "partial")])
         IN  [w |-> Op(w1, "unlink_scratch", [w1.g EXCEPT !.scratch = FALSE]),
              ok |-> FALSE, raised |-> TRUE]

\* git_apply_patch of claude_desktop_runner: path.write_text precedes the try, so
\* an exception of the write leaves git_apply_patch without the finally block
git_apply_patch(w, mode, wr) ==
    IF wr = "ok" THEN apply_patch(w, mode) @@ [raised |-> FALSE]
    ELSE [w |-> Op(w, "write_scratch", [w.g EXCEPT !.scratch = (wr = "partial")]),
          ok |-> FALSE, raised |-> TRUE]

\* GitRepo.commit: git commit -m ...; status is the exit status
commit(w, id, status) ==
    Op(w, "commit",
       IF status = 0 /\ w.g.staged # {}
       THEN [w.g EXCEPT !.commits = @ \cup {[id |-> id, branch |-> w.g.branch]},
                        !.staged = {}, !.tip[w.g.branch] = w.g.staged]
       ELSE w.g)

\* GitRepo.get_diff_summary: the paths `git diff --stat HEAD~1` lists
\* (variant: git diff --stat HEAD)
get_diff_summary_Head(g) == g.staged
get_diff_summary(g) == g.tip[g.branch]

ExitCodes == {0, 1}

\* TaskProcessor._run_build / _run_tests: "skipped", "pass" or "fail"
RunCommand(configured, status) ==
    IF ~configured THEN "skipped" ELSE IF status = 0 THEN "pass" ELSE "fail"

\* build_ok / tests_ok of TaskProcessor._notify_result
\* (variant: only a command that ran and passed counts)
StepOk_PassOnly(res) == res = "pass"
StepOk(res) == res = "skipped" \/ res = "pass"

\* TaskProcessor._notify_result: which report is sent
\* (variant: every finished attempt is reported as plain success)
NotifyResultKind_Always(build, tests) == "success"
NotifyResultKind(build, tests) ==
    IF StepOk(build) /\ StepOk(tests) THEN "success" ELSE "issues"

(***************************************************************************)
(* State.                                                                  *)
(***************************************************************************)
\* tasks/inbox, tasks/processing, tasks/planning, tasks/done, tasks/archive;
\* "failed" is the partition of the specification, which no runner creates
Partitions == {"inbox", "processing", "planning", "done", "failed", "archive"}

VARIABLES
    cfg,        \* environment read at start-up: BUILD_CMD, TEST_CMD, the API keys, the locale
    files,      \* files[p]: the record files (by id) in partition directory p
    card,       \* card[id]: the content of record id as written by the producer
    now,        \* the producer's clock
    results,    \* result files written into tasks/done: <<runner, id, status>>
    artifacts,  \* pipeline artifacts on disk: <<id, name>>
    git,        \* the working copy
    pc,         \* pc[r]: where runner r is in its poll loop
    batch,      \* batch[r]: what is left of the listing r took
    cur,        \* cur[r]: the record r has moved to its processing directory
    claims,     \* claims[id]: the runners whose move out of the inbox succeeded
    contended,  \* the ids some runner listed and then failed to move
    bot,        \* the /note handler in progress: the card it read and the note to add
    last        \* the attempt made by the step that led to this state, if it was one

vars == <<cfg, files, card, now, results, artifacts, git, pc, batch, cur, claims,
          contended, bot, last>>

\* the notifications that report a task's outcome
ReportKinds == {"success", "issues", "failure", "ready"}

\* a plan dictionary with nothing in it, and the four extracted lists with
\* nothing extracted
NoPlan == [original_directive |-> <<>>, plan_text |-> <<>>, components |-> <<>>,
           steps |-> <<>>, files |-> <<>>, acceptance |-> <<>>]
NoList == [raised |-> FALSE, value |-> <<>>]
NoParse == [components |-> NoList, steps |-> NoList, files |-> NoList,
            acceptance |-> NoList]

\* no cursor_context.json
NoContext == [task_id |-> 0, plan |-> "none", patch_file |-> <<>>,
              instructions_file |-> <<>>]

NoAtt == [step |-> "none", id |-> 0, runner |-> "none", status |-> "none",
          raised |-> FALSE, kind |-> "none", output |-> None, applied |-> None,
          ops |-> <<>>, notes |-> <<>>, branch |-> <<>>, mode |-> "none",
          applyOk |-> FALSE, commitStatus |-> 1, build |-> "none", tests |-> "none",
          stages |-> <<>>, endBranch |-> DEFAULT_BRANCH, endClean |-> TRUE,
          endStaged |-> {}, applyStaged |-> {}, wr |-> "none", applyScratch |-> FALSE,
          commitBranch |-> DEFAULT_BRANCH, partition |-> "none",
          prev |-> <<>>, note |-> <<>>, latest |-> 0, records |-> 0, plan |-> "none",
          notify |-> "none", refStatus |-> "none", refOps |-> <<>>,
          createFailed |-> FALSE, summary |-> {}, valid |-> FALSE, validImpl |-> FALSE,
          fallback |-> NoPlan, parsed |-> NoParse, context |-> NoContext]

\* no /note handler is running
Idle == [pc |-> "idle", id |-> 0, text |-> <<>>, note |-> <<>>]

Configs == [build : BOOLEAN, test : BOOLEAN, planner : BOOLEAN,
            implementer : BOOLEAN, locale : Locales]

\* the environments of the three-runner specification: no build or test command,
\* the implementer's API key set
QueueConfigs == {c \in Configs : ~c.build /\ ~c.test /\ c.implementer}

\* the environments of claude_runner, which reads neither planner nor implementer key
ClaudeConfigs == {c \in Configs : ~c.planner /\ ~c.implementer}

\* the state once the modules are loaded: empty directories, a clean working copy
\* on the default branch, every runner about to poll
StartAt(configs, b) ==
    /\ cfg \in configs
    /\ files = [p \in Partitions |-> {}]
    /\ card = [i \in Ids |-> NoCard]
    /\ now = 1
    /\ results = {}
    /\ artifacts = {}
    /\ git = [branch |-> b, branches |-> {b}, staged |-> {},
              unstaged |-> FALSE, scratch |-> FALSE, commits |-> {},
              tip |-> [n \in {b} |-> BASE_STAT]]
    /\ pc = [r \in Runners |-> "poll"]
    /\ batch = [r \in Runners |-> <<>>]
    /\ cur = [r \in Runners |-> 0]
    /\ claims = [i \in Ids |-> <<>>]
    /\ contended = {}
    /\ bot = Idle
    /\ last = NoAtt

Start(configs) == StartAt(configs, DEFAULT_BRANCH)

(***************************************************************************)
(* The producer (bridge_bot).                                              *)
(***************************************************************************)
\* cmd_task / handle_text: a new card, written into the inbox under a fresh id
Enqueue(id, kind, text) ==
    /\ card[id] = NoCard
    /\ text # <<>>
    /\ card' = [card EXCEPT ![id] = new_card(kind, text, now, cfg.locale)]
    /\ files' = [files EXCEPT !["inbox"] = @ \cup {id}]
    /\ now' = now + 1
    /\ last' = NoAtt
    /\ UNCHANGED <<cfg, results, artifacts, git, pc, batch, cur, claims, contended, bot>>

\* cmd_task / handle_text file operation by file operation, for the runs in which
\* a runner acts in between.  write_text first opens inbox/<id>.json for writing,
\* which creates the file, empty
TaskOpen(id, kind, text) ==
    /\ bot.pc = "idle"
    /\ card[id] = NoCard
    /\ text # <<>>
    /\ card' = [card EXCEPT ![id] = [new_card(kind, text, now, cfg.locale)
                                        EXCEPT !.bytes = <<>>]]
    /\ files' = [files EXCEPT !["inbox"] = @ \cup {id}]
    /\ now' = now + 1
    /\ bot' = [pc |-> "writing", id |-> id, text |-> text, note |-> <<>>]
    /\ last' = NoAtt
    /\ UNCHANGED <<cfg, results, artifacts, git, pc, batch, cur, claims, contended>>

\* then it writes the document and closes the file, wherever a rename has put
\* the file in the meantime
TaskWrite ==
    /\ bot.pc = "writing"
    /\ card' = [card EXCEPT ![bot.id].bytes = Encode(bot.text, cfg.locale)]
    /\ bot' = Idle
    /\ last' = NoAtt
    /\ UNCHANGED <<cfg, files, now, results, artifacts, git, pc, batch, cur, claims,
                   contended>>

\* directives and note texts of the /note scenarios: "a", "a" + e-acute, and
\* A-tilde + copyright sign, whose cp1252 bytes are the UTF-8 bytes of e-acute
D_TWO_BYTES == <<195, 169>>
NoteDirectives == {D_ASCII, D_LATIN, D_TWO_BYTES}
N_ASCII == <<98>>
N_LATIN == <<233>>
NoteTexts == {N_ASCII, N_LATIN}

\* "\n\nNote: "
NOTE_PREFIX == <<10, 10, 78, 111, 116, 101, 58, 32>>

\* the ids that have been given to a record
Created == {i \in Ids : card[i] # NoCard}

\* the record created last
LatestCreated == CHOOSE i \in Created : \A j \in Created : card[j].created <= card[i].created

\* get_last_task: the inbox file with the greatest mtime, or 0 when the inbox is empty
get_last_task ==
    IF files["inbox"] = {} THEN 0
    ELSE CHOOSE i \in files["inbox"] : \A j \in files["inbox"] : card[j].mtime <= card[i].mtime

\* cmd_note: the text is appended to the card get_last_task returns and the card
\* is written back; an unreadable file makes get_last_task raise
cmd_note(text) ==
    LET f    == get_last_task
        base == [NoAtt EXCEPT !.step = "note", !.note = text, !.records = Cardinality(Created),
                              !.latest = IF Created = {} THEN 0 ELSE LatestCreated]
    IN  /\ text # <<>>
        /\ now <= NumRecords + MaxNotes
        /\ now' = now + 1
        /\ IF f = 0
           THEN /\ last' = [base EXCEPT !.status = "no_task"]
                /\ card' = card
           ELSE IF ~Readable(card[f])
           THEN /\ last' = [base EXCEPT !.status = "raised", !.raised = TRUE, !.id = f,
                                        !.prev = Decode(card[f].bytes, cfg.locale)]
                /\ card' = card
           ELSE /\ last' = [base EXCEPT !.status = "appended", !.id = f,
                                        !.prev = Decode(card[f].bytes, cfg.locale)]
                /\ card' = [card EXCEPT ![f].mtime = now,
                                        ![f].bytes = Encode(Decode(card[f].bytes, "utf-8")
                                                            \o NOTE_PREFIX \o text, cfg.locale)]
        /\ UNCHANGED <<cfg, files, results, artifacts, git, pc, batch, cur, claims, contended, bot>>

\* cmd_note file operation by file operation, for the runs in which the runners,
\* which are other processes, act in between.  First last_task = get_last_task()
NoteRead(text) ==
    /\ bot.pc = "idle"
    /\ text # <<>>
    /\ now <= NumRecords + MaxNotes
    /\ get_last_task # 0
    /\ Readable(card[get_last_task])
    /\ bot' = [pc |-> "read", id |-> get_last_task,
               text |-> Decode(card[get_last_task].bytes, "utf-8"), note |-> text]
    /\ last' = NoAtt
    /\ UNCHANGED <<cfg, files, card, now, results, artifacts, git, pc, batch, cur, claims,
                   contended>>

\* then task_file.exists(): "Task file not found" when the file has left the inbox
NoteExists ==
    /\ bot.pc = "read"
    /\ bot' = IF bot.id \in files["inbox"] THEN [bot EXCEPT !.pc = "checked"] ELSE Idle
    /\ last' = NoAtt
    /\ UNCHANGED <<cfg, files, card, now, results, artifacts, git, pc, batch, cur, claims,
                   contended>>

\* then task_file.write_text(...), which creates the file when it is not there
NoteWrite ==
    /\ bot.pc = "checked"
    /\ card' = [card EXCEPT ![bot.id].mtime = now,
                            ![bot.id].bytes = Encode(bot.text \o NOTE_PREFIX \o bot.note,
                                                     cfg.locale)]
    /\ files' = [files EXCEPT !["inbox"] = @ \cup {bot.id}]
    /\ now' = now + 1
    /\ bot' = Idle
    /\ last' = NoAtt
    /\ UNCHANGED <<cfg, results, artifacts, git, pc, batch, cur, claims, contended>>

\* cmd_clear: every file of tasks/done is renamed into tasks/archive/<timestamp>
\* (variant: cmd_clear unlinks the files of tasks/done)
Archive_Unlink ==
    /\ files["done"] # {}
    /\ files' = [files EXCEPT !["done"] = {}]
    /\ last' = NoAtt
    /\ UNCHANGED <<cfg, card, now, results, artifacts, git, pc, batch, cur, claims,
                   contended, bot>>
Archive ==
    /\ files["done"] # {}
    /\ files' = [files EXCEPT !["archive"] = @ \cup files["done"], !["done"] = {}]
    /\ last' = NoAtt
    /\ UNCHANGED <<cfg, card, now, results, artifacts, git, pc, batch, cur, claims,
                   contended, bot>>

(***************************************************************************)
(* The poll loops (main_loop of the three runners).                        *)
(***************************************************************************)
\* the directory a runner moves a claimed record into
ProcDir(r) == IF r = "pipeline" THEN "planning" ELSE "processing"

\* sorted(INBOX.glob("*.json")): ascending by file name
RECURSIVE SortedNames(_)
SortedNames(S) ==
    IF S = {} THEN <<>>
    ELSE LET m == CHOOSE x \in S : \A y \in S : x <= y
         IN  <<m>> \o SortedNames(S \ {m})

\* where `except Exception` of main_loop leaves the loop: it logs, sleeps and
\* polls again
\* (variant: the error ends the loop)
LoopAfterError_Stops == "stopped"
LoopAfterError == "poll"

\* shutil.move(src, dst) finds its source
\* (variant: a move that never misses its source)
SourceExists_Always(f, dir) == TRUE
SourceExists(f, dir) == f \in dir

\* task_files = sorted(INBOX.glob("*.json")); an empty listing sleeps and polls again
List(r) ==
    /\ pc[r] = "poll"
    /\ files["inbox"] # {}
    /\ batch' = [batch EXCEPT ![r] = SortedNames(files["inbox"])]
    /\ pc' = [pc EXCEPT ![r] = "claim"]
    /\ last' = NoAtt
    /\ UNCHANGED <<cfg, files, card, now, results, artifacts, git, cur, claims, contended, bot>>

\* shutil.move(inbox/f, processing/f) for the next file of the listing; when the
\* file is gone the move raises, the loop logs the error, sleeps and polls again
Claim(r) ==
    /\ pc[r] = "claim"
    /\ batch[r] # <<>>
    /\ LET f == Head(batch[r]) IN
       IF SourceExists(f, files["inbox"])
       THEN /\ files' = [files EXCEPT !["inbox"] = @ \ {f}, ![ProcDir(r)] = @ \cup {f}]
            /\ cur' = [cur EXCEPT ![r] = f]
            /\ batch' = [batch EXCEPT ![r] = Tail(@)]
            /\ pc' = [pc EXCEPT ![r] = "process"]
            /\ claims' = [claims EXCEPT ![f] = Append(@, r)]
            /\ contended' = contended
       ELSE /\ contended' = contended \cup {f}
            /\ batch' = [batch EXCEPT ![r] = <<>>]
            /\ pc' = [pc EXCEPT ![r] = LoopAfterError]
            /\ UNCHANGED <<files, cur, claims>>
    /\ last' = NoAtt
    /\ UNCHANGED <<cfg, card, now, results, artifacts, git, bot>>

(***************************************************************************)
(* claude_runner: TaskProcessor.process_card.                              *)
(***************************************************************************)
\* the except branch: ensure_clean() and checkout_branch(DEFAULT_BRANCH)
\* (variant: an except branch that leaves the working copy as it is)
Rollback_None(w) == w
\* (variant: an except branch that also deletes the task branch)
Rollback_DeleteBranch(w) ==
    [checkout_default(ensure_clean(w)) EXCEPT !.g.branches = @ \ ({w.g.branch} \ {DEFAULT_BRANCH})]
Rollback(w) == checkout_default(ensure_clean(w))

\* the attempt record, with the commands run and the working copy it leaves
Finish(a, w) ==
    [a EXCEPT !.ops = w.ops, !.endBranch = w.g.branch, !.endClean = Clean(w.g),
              !.endStaged = w.g.staged]

\* the two checks between generate_patch and apply_patch: `if not patch.strip()`
\* and `if not self._is_valid_patch(patch)`
\* (variant: no check before apply_patch)
StageAccepts_Any(patch) == TRUE
StageAccepts(patch) == ~Blank(patch) /\ IsValidPatch(patch)

\* patch: the collaborator's output; name: the generated branch name; mode: the
\* patch tool's behaviour; cstatus, bstatus, tstatus: exit statuses of commit, build, test
process_card(g0, id, patch, name, mode, wr, cstatus, bstatus, tstatus) ==
    LET base    == [NoAtt EXCEPT !.step = "attempt", !.id = id, !.runner = "claude"]
        w0      == [g |-> g0, ops |-> <<>>]
        w1      == create_branch(w0, name)
        stageOk == StageAccepts(patch)
        ap      == repo_apply_patch(w1, mode, wr)
        w3      == commit(ap.w, id, cstatus)
        build   == RunCommand(cfg.build, bstatus)
        tests   == RunCommand(cfg.test, tstatus)
        w4      == IF cfg.build THEN Op(w3, "build", w3.g) ELSE w3
        w5      == IF cfg.test THEN Op(w4, "test", w4.g) ELSE w4
        w6      == Op(w5, "diff_stat", w5.g)
        tried   == [base EXCEPT !.kind = "task", !.output = patch, !.branch = name,
                                !.createFailed = CreateFails(g0, name)]
        called  == [tried EXCEPT !.applied = patch, !.mode = mode, !.wr = wr,
                                 !.applyStaged = ap.w.g.staged,
                                 !.applyScratch = ap.w.g.scratch]
        failed(a, w) ==
            [g |-> Rollback(w).g,
             att |-> Finish([a EXCEPT !.status = "failed", !.notes = <<"failure">>],
                            Rollback(w))]
    IN  IF ~Readable(card[id])
        THEN [g |-> g0, att |-> Finish([base EXCEPT !.status = "raised", !.raised = TRUE], w0)]
        ELSE IF card[id].kind = "note"
        THEN [g |-> g0, att |-> Finish([base EXCEPT !.kind = "note", !.status = "skipped"], w0)]
        ELSE IF ~stageOk
        THEN failed(tried, w1)
        ELSE IF ~ap.ok
        THEN failed(called, ap.w)
        ELSE IF cstatus # 0
        THEN failed([called EXCEPT !.applyOk = TRUE], w3)
        ELSE [g |-> w6.g,
              att |-> Finish([called EXCEPT !.applyOk = TRUE, !.commitStatus = 0,
                                           !.commitBranch = ap.w.g.branch,
                                           !.build = build, !.tests = tests,
                                           !.summary = get_diff_summary(w5.g),
                                           !.status = "success",
                                           !.notes = <<NotifyResultKind(build, tests)>>],
                             w6)]

\* what happens to one sendMessage request: answered 200, answered with another
\* status, requests.post raises, or no credentials are configured
NotifyOutcomes == {"sent", "rejected", "raised", "unconfigured"}

\* notifier.notify: the value it returns and whether it raises
\* (variant: an exception of the transport leaves notify)
notify_Propagates(nt) == [sent |-> (nt = "sent"), raised |-> (nt = "raised")]
notify(nt) == [sent |-> (nt = "sent"), raised |-> FALSE]

\* what process_card returns, r, with the outcome nt of its notify calls.  A notify
\* that raised in _notify_result would be caught by the except branch (rollback,
\* status failed), whose own notify would then raise out of process_card
process_card_notify(r, nt) ==
    IF r.att.notes = <<>> \/ ~notify(nt).raised
    THEN [g |-> r.g, att |-> [r.att EXCEPT !.notify = nt]]
    ELSE IF r.att.status = "success"
    THEN LET w == Rollback([g |-> r.g, ops |-> r.att.ops])
         IN  [g |-> w.g, att |-> Finish([r.att EXCEPT !.notify = nt, !.status = "raised",
                                                     !.raised = TRUE], w)]
    ELSE [g |-> r.g, att |-> [r.att EXCEPT !.notify = nt, !.status = "raised",
                                           !.raised = TRUE]]

\* where a KeyboardInterrupt can reach process_card: in generate_patch (the
\* branch exists), between apply_patch and commit (the patch is staged), and
\* before _notify_result (the commit is made)
CutPoints == {"generate_patch", "commit", "notify"}

\* process_card up to cut point `cut`: KeyboardInterrupt is not an Exception, so
\* the except branch does not run and the call raises
interrupted_process_card(g0, id, patch, name, mode, cut) ==
    LET base   == [NoAtt EXCEPT !.step = "attempt", !.id = id, !.runner = "claude",
                                !.kind = "task", !.branch = name,
                                !.status = "interrupted", !.raised = TRUE]
        w0     == [g |-> g0, ops |-> <<>>]
        w1     == create_branch(w0, name)
        ap     == repo_apply_patch(w1, mode, "ok")
        w3     == commit(ap.w, id, 0)
        called == [base EXCEPT !.output = patch, !.applied = patch, !.mode = mode,
                               !.wr = "ok", !.applyOk = TRUE,
                               !.applyStaged = ap.w.g.staged,
                               !.applyScratch = ap.w.g.scratch]
    IN  IF cut = "generate_patch"
        THEN [g |-> w1.g, att |-> Finish(base, w1)]
        ELSE IF cut = "commit"
        THEN [g |-> ap.w.g, att |-> Finish(called, ap.w)]
        ELSE [g |-> w3.g,
              att |-> Finish([called EXCEPT !.commitStatus = 0,
                                           !.commitBranch = ap.w.g.branch], w3)]

(***************************************************************************)
(* claude_desktop_runner: process_task.                                    *)
(***************************************************************************)
\* what one pull of the Claude window returns
DesktopContents == {T_EMPTY, T_PROSE, T_DIFF, T_PROSE_THEN_PATCH}

\* the wait loop: the first pull from which extract_patch gets a patch, else None
RECURSIVE PollForPatch(_)
PollForPatch(pulls) ==
    IF pulls = <<>> THEN None
    ELSE IF extract_patch(Head(pulls)) # None /\ extract_patch(Head(pulls)) # <<>>
         THEN extract_patch(Head(pulls))
         ELSE PollForPatch(Tail(pulls))

\* sendOk: ahk_send_claude succeeded; pulls: what the window shows at each pull
desktop_process_task(g0, id, sendOk, pulls, name, mode, wr, cstatus, bstatus, tstatus) ==
    LET base  == [NoAtt EXCEPT !.step = "attempt", !.id = id, !.runner = "desktop"]
        w0    == [g |-> g0, ops |-> <<>>]
        patch == PollForPatch(pulls)
        w1    == create_branch(w0, name)
        ap    == git_apply_patch(w1, mode, wr)
        w3    == commit(ap.w, id, cstatus)
        w4    == IF cfg.build THEN Op(w3, "build", w3.g) ELSE w3
        w5    == IF cfg.test THEN Op(w4, "test", w4.g) ELSE w4
        seen  == [base EXCEPT !.kind = card[id].kind, !.notes = <<"processing">>]
        \* the exception reaches main_loop, which reports the failure
        raise(a, w) ==
            [g |-> w.g,
             att |-> Finish([a EXCEPT !.status = "failed", !.raised = TRUE,
                                      !.notes = Append(a.notes, "failure")], w)]
    IN  IF ~Readable(card[id])
        THEN raise(base, w0)
        ELSE IF ~sendOk
        THEN raise(seen, w0)
        ELSE IF patch = None
        THEN raise([seen EXCEPT !.output = IF pulls = <<>> THEN None ELSE pulls[Len(pulls)]], w0)
        ELSE IF ~ap.ok
        THEN raise([seen EXCEPT !.output = patch, !.applied = patch, !.branch = name,
                                !.createFailed = CreateFails(g0, name),
                                !.mode = mode, !.wr = wr,
                                !.applyStaged = ap.w.g.staged,
                                !.applyScratch = ap.w.g.scratch,
                                !.notes = <<"processing", "patch">>], ap.w)
        ELSE [g |-> w5.g,
              att |-> Finish([seen EXCEPT !.output = patch, !.applied = patch,
                                          !.branch = name, !.mode = mode,
                                          !.createFailed = CreateFails(g0, name),
                                          !.applyOk = TRUE, !.commitStatus = cstatus,
                                          !.wr = wr,
                                          !.applyStaged = ap.w.g.staged,
                                          !.applyScratch = ap.w.g.scratch,
                                          !.commitBranch = ap.w.g.branch,
                                          !.build = RunCommand(cfg.build, bstatus),
                                          !.tests = RunCommand(cfg.test, tstatus),
                                          !.status = "success",
                                          !.notes = <<"processing", "patch">>
                                              \o (IF cfg.build THEN <<"build">> ELSE <<>>)
                                              \o (IF cfg.test THEN <<"test">> ELSE <<>>)
                                              \o <<"success">>],
                             w5)]

(***************************************************************************)
(* pipeline_orchestrator: PipelineOrchestrator.process_task.               *)
(***************************************************************************)
\* the files CursorIntegration.prepare_for_cursor writes for a task
CursorPackage == {"implementation.patch", "cursor_instructions.md", "test_checklist.md",
                  "integration_guide.md", "cursor_context.json"}

\* the dictionary prepare_for_cursor writes to cursor_context.json and returns:
\* the task id, the fields copied from the plan, and the paths of two files of
\* the task directory
cursor_context(id, plan) ==
    [task_id |-> id, plan |-> plan,
     patch_file |-> <<id, "implementation.patch">>,
     instructions_file |-> <<id, "cursor_instructions.md">>]

\* the implementer's call raising instead of returning text
RAISED == <<"raised">>
ImplOutputs == PatchTexts \cup {RAISED}

\* ChatGPTPlanner.create_plan: a plan, or None when the call raised
create_plan(planOk) == IF planOk THEN "plan" ELSE "none"

\* PipelineOrchestrator._create_fallback_plan
create_fallback_plan == "fallback"

\* the section headers the plan extractors look for
H_COMPONENTS == <<"C", "O", "M", "P", "O", "N", "E", "N", "T", "S", ":">>
H_STEPS == <<"I", "M", "P", "L", "E", "M", "E", "N", "T", "A", "T", "I", "O", "N", " ", "S", "T", "E", "P", "S", ":">>
H_FILES == <<"F", "I", "L", "E", " ", "S", "T", "R", "U", "C", "T", "U", "R", "E", ":">>
H_ACCEPTANCE == <<"A", "C", "C", "E", "P", "T", "A", "N", "C", "E", " ", "C", "R", "I", "T", "E", "R", "I", "A", ":">>
Headers == {H_COMPONENTS, H_STEPS, H_FILES, H_ACCEPTANCE}

\* `sub in s`, and the 1-based position of the first occurrence of sub in s (0: none)
Find(s, sub) ==
    LET hits == {i \in 1..(Len(s) - Len(sub) + 1) : SubSeq(s, i, i + Len(sub) - 1) = sub}
    IN  IF hits = {} THEN 0 ELSE CHOOSE i \in hits : \A j \in hits : i <= j
Contains(s, sub) == Find(s, sub) # 0

\* str.split(sep): the pieces of s between the occurrences of sep, left to right
RECURSIVE SplitOn(_, _)
SplitOn(s, sep) ==
    IF ~Contains(s, sep) THEN <<s>>
    ELSE <<SubSeq(s, 1, Find(s, sep) - 1)>>
         \o SplitOn(SubSeq(s, Find(s, sep) + Len(sep), Len(s)), sep)

\* str.strip(chars)
RECURSIVE LStripChars(_, _)
LStripChars(s, chars) ==
    IF s = <<>> THEN s
    ELSE IF Head(s) \in chars THEN LStripChars(Tail(s), chars) ELSE s
RECURSIVE RStripChars(_, _)
RStripChars(s, chars) ==
    IF s = <<>> THEN s
    ELSE IF s[Len(s)] \in chars THEN RStripChars(SubSeq(s, 1, Len(s) - 1), chars) ELSE s
StripChars(s, chars) == RStripChars(LStripChars(s, chars), chars)

Digits == {"0", "1", "2", "3", "4", "5", "6", "7", "8", "9"}

\* list[i - 1] in Python: the item, or IndexError
Item(list, i) ==
    IF i <= Len(list) THEN [raised |-> FALSE, value |-> list[i]]
    ELSE [raised |-> TRUE, value |-> <<>>]

\* the guard of every extractor: `if "<HEADER>" in plan_text`
\* (variant: the section is looked up without the guard)
HasSection_Unguarded(plan_text, header) == TRUE
HasSection(plan_text, header) == Contains(plan_text, header)

\* plan_text.split(header)[1].split("\n\n")[0].split("\n"): the lines of the
\* section that follows the first occurrence of the header
SectionLines(plan_text, header) ==
    LET after == Item(SplitOn(plan_text, header), 2)
    IN  IF after.raised THEN after
        ELSE [raised |-> FALSE,
              value |-> SplitOn(SplitOn(after.value, <<"\n", "\n">>)[1], <<"\n">>)]

\* `line.strip().startswith("-")` and `line.strip("- ").strip()`
IsBullet(line) == StartsWith(Strip(line), <<"-">>)
BulletText(line) == Strip(StripChars(line, {"-", " "}))

\* `line.strip() and line[0].isdigit()` and `line.strip("1234567890. ").strip()`
IsNumbered(line) == Strip(line) # <<>> /\ line[1] \in Digits
NumberedText(line) == Strip(StripChars(line, Digits \cup {".", " "}))

\* the lines _extract_files keeps: a path-like line with a colon
IsFileLine(line) ==
    /\ \/ Contains(line, <<"/">>) \/ Contains(line, <<"\\">>)
       \/ Contains(line, <<".", "c", "p", "p">>) \/ Contains(line, <<".", "h">>)
    /\ Len(SplitOn(line, <<":">>)) >= 2
FileEntry(line) ==
    [path |-> Strip(StripChars(SplitOn(line, <<":">>)[1], {"-", " "})),
     purpose |-> Strip(SplitOn(line, <<":">>)[2])]

MapBullets(lines) ==
    [i \in 1..Len(SelectSeq(lines, IsBullet)) |-> BulletText(SelectSeq(lines, IsBullet)[i])]

\* ChatGPTPlanner._extract_components
extract_components(plan_text) ==
    IF HasSection(plan_text, H_COMPONENTS)
    THEN LET s == SectionLines(plan_text, H_COMPONENTS)
         IN  IF s.raised THEN s ELSE [raised |-> FALSE, value |-> MapBullets(s.value)]
    ELSE NoList

\* ChatGPTPlanner._extract_steps
extract_steps(plan_text) ==
    IF HasSection(plan_text, H_STEPS)
    THEN LET s == SectionLines(plan_text, H_STEPS)
         IN  IF s.raised THEN s
             ELSE [raised |-> FALSE,
                   value |-> [i \in 1..Len(SelectSeq(s.value, IsNumbered)) |->
                                 NumberedText(SelectSeq(s.value, IsNumbered)[i])]]
    ELSE NoList

\* ChatGPTPlanner._extract_files
extract_files(plan_text) ==
    IF HasSection(plan_text, H_FILES)
    THEN LET s == SectionLines(plan_text, H_FILES)
         IN  IF s.raised THEN s
             ELSE [raised |-> FALSE,
                   value |-> [i \in 1..Len(SelectSeq(s.value, IsFileLine)) |->
                                 FileEntry(SelectSeq(s.value, IsFileLine)[i])]]
    ELSE NoList

\* ChatGPTPlanner._extract_acceptance
extract_acceptance(plan_text) ==
    IF HasSection(plan_text, H_ACCEPTANCE)
    THEN LET s == SectionLines(plan_text, H_ACCEPTANCE)
         IN  IF s.raised THEN s ELSE [raised |-> FALSE, value |-> MapBullets(s.value)]
    ELSE NoList

\* the four lists ChatGPTPlanner.create_plan puts into the plan dictionary
parse_plan(plan_text) ==
    [components |-> extract_components(plan_text),
     steps |-> extract_steps(plan_text),
     files |-> extract_files(plan_text),
     acceptance |-> extract_acceptance(plan_text)]

\* the texts of the fallback plan (code points): "Implement: ", "main",
\* "Implement the requested feature", "Feature works as requested"
FB_PREFIX == <<73, 109, 112, 108, 101, 109, 101, 110, 116, 58, 32>>
FB_COMPONENT == <<109, 97, 105, 110>>
FB_STEP == <<73, 109, 112, 108, 101, 109, 101, 110, 116, 32, 116, 104, 101, 32, 114, 101,
             113, 117, 101, 115, 116, 101, 100, 32, 102, 101, 97, 116, 117, 114, 101>>
FB_ACCEPTANCE == <<70, 101, 97, 116, 117, 114, 101, 32, 119, 111, 114, 107, 115, 32, 97,
                   115, 32, 114, 101, 113, 117, 101, 115, 116, 101, 100>>

\* the dictionary PipelineOrchestrator._create_fallback_plan returns for a directive
FallbackPlan(directive) ==
    [original_directive |-> directive,
     plan_text |-> FB_PREFIX \o directive,
     components |-> <<FB_COMPONENT>>,
     steps |-> <<FB_STEP>>,
     files |-> <<>>,
     acceptance |-> <<FB_ACCEPTANCE>>]

\* stage 1 of process_task raises: `if not plan` after create_plan
\* (variant: the check is missing)
PlanFailed_Never(planner, plan) == FALSE
PlanFailed(planner, plan) == planner /\ plan = "none"

\* the stage that provides the plan: ChatGPT planning, or the fallback plan when
\* the planner is not configured
\* (variant: no plan without a planner)
PlanStage_Skipped(planner) == IF planner THEN <<"planning">> ELSE <<>>
PlanStage(planner) == IF planner THEN <<"planning">> ELSE <<"fallback_plan">>

\* ClaudeImplementer.implement_plan: the patch, or None for a rejected patch and
\* for an exception
\* (variant: whatever the collaborator returned is passed on)
implement_plan_Unchecked(out) == out
implement_plan(out) ==
    IF out = RAISED THEN None
    ELSE IF ImplementerIsValidPatch(out) THEN out ELSE None

\* planOk: ChatGPTPlanner.create_plan returned a plan; output: the implementer's
\* text or RAISED; prepOk: CursorIntegration.prepare_for_cursor did not raise
pipeline_process_task(id, planOk, output, prepOk) ==
    LET base    == [NoAtt EXCEPT !.step = "attempt", !.id = id, !.runner = "pipeline"]
        seen    == [base EXCEPT !.kind = card[id].kind, !.notes = <<"progress">>]
        plan    == IF cfg.planner THEN create_plan(planOk) ELSE create_fallback_plan
        planned == PlanStage(cfg.planner)
        planArt == IF cfg.planner /\ plan # "none" THEN {<<id, "plan.json">>} ELSE {}
        patch   == implement_plan(output)
        withPlan == [seen EXCEPT !.plan = plan]
        failed(a, arts) ==
            [arts |-> arts,
             att |-> [a EXCEPT !.status = "failed", !.notes = Append(a.notes, "failure")]]
    IN  IF ~Readable(card[id])
        THEN [arts |-> {}, att |-> [base EXCEPT !.status = "raised", !.raised = TRUE]]
        ELSE IF PlanFailed(cfg.planner, plan)
        THEN failed([seen EXCEPT !.stages = <<"planning">>], {})
        ELSE IF ~cfg.implementer
        THEN failed([withPlan EXCEPT !.stages = planned], planArt)
        ELSE IF patch = None \/ patch = <<>>
        THEN failed([withPlan EXCEPT !.stages = Append(planned, "implementation"),
                                     !.output = output], planArt)
        ELSE IF ~prepOk
        THEN failed([withPlan EXCEPT !.stages = planned \o <<"implementation", "cursor_prep">>,
                                     !.output = output],
                    planArt \cup {<<id, "patch">>, <<id, "implementation.patch">>})
        ELSE [arts |-> planArt \cup {<<id, "patch">>, <<id, "ready.json">>}
                       \cup {<<id, n>> : n \in CursorPackage},
              att |-> [withPlan EXCEPT !.stages = planned \o <<"implementation", "cursor_prep">>,
                                       !.output = output, !.status = "success",
                                       !.context = cursor_context(id, plan),
                                       !.notes = <<"progress", "ready">>]]

(***************************************************************************)
(* One iteration of a poll loop on the record it has claimed: the handler, *)
(* the result file, the finally block.                                     *)
(***************************************************************************)
Reports(a) == {a.notes[i] : i \in {j \in DOMAIN a.notes : a.notes[j] \in ReportKinds}}

\* exit statuses an optional command can produce
Statuses(configured) == IF configured THEN ExitCodes ELSE {0}

\* the partition the finally block of claude_runner / claude_desktop_runner moves
\* the record to
\* (variant: a failed attempt puts the record back into the inbox)
TerminalPartition_Requeue(status) ==
    IF status \in {"failed", "raised"} THEN "inbox" ELSE "done"
\* (variant: a failed attempt goes to a failed partition)
TerminalPartition_ByStatus(status) ==
    IF status \in {"failed", "raised"} THEN "failed" ELSE "done"
TerminalPartition(status) == "done"

\* where the finally block leaves record f of runner r: claude_runner and
\* claude_desktop_runner move it, pipeline_orchestrator unlinks it if it exists
Destination(r, f, status) ==
    IF r = "pipeline" THEN "unlinked"
    ELSE IF SourceExists(f, files[ProcDir(r)]) THEN TerminalPartition(status)
    ELSE "error"

\* (variant: a finally block that leaves the record where it is)
FilesAfter_Kept(r, f, dest) == files
FilesAfter(r, f, dest) ==
    IF dest = "error" THEN files
    ELSE IF dest = "unlinked" THEN [files EXCEPT ![ProcDir(r)] = @ \ {f}]
    ELSE [files EXCEPT ![ProcDir(r)] = @ \ {f}, ![dest] = @ \cup {f}]

\* the rest of the iteration: the finally block, then either the next file of the
\* listing or, when an exception leaves the iteration or the listing is used up,
\* the sleep and the next poll
EndIteration(r, a) ==
    LET f      == cur[r]
        dest   == Destination(r, f, a.status)
        thrown == (a.raised /\ r # "desktop") \/ dest = "error"
    IN  /\ files' = FilesAfter(r, f, dest)
        /\ last' = [a EXCEPT !.partition = dest]
        /\ batch' = [batch EXCEPT ![r] = IF thrown THEN <<>> ELSE @]
        /\ pc' = [pc EXCEPT ![r] = IF thrown THEN LoopAfterError
                                    ELSE IF batch[r] = <<>> THEN "poll" ELSE "claim"]
        /\ cur' = [cur EXCEPT ![r] = 0]
        /\ bot' = bot

\* claude_runner.main_loop: result = processor.process_card(processing_file), the
\* result file <stem>_result.json unless process_card raised, the move to tasks/done
ClaudeIteration(patch, n, mode, wr, cstatus, bstatus, tstatus) ==
    /\ pc["claude"] = "process"
    /\ \E r \in {process_card(git, cur["claude"], patch, <<"auto", n>>, mode, wr, cstatus,
                             bstatus, tstatus)} :
           /\ git' = r.g
           /\ results' = IF r.att.raised THEN results
                         ELSE results \cup {<<"claude", r.att.id, r.att.status>>}
           /\ EndIteration("claude", r.att)
    /\ UNCHANGED <<cfg, card, now, artifacts, claims, contended, bot>>

\* the same iteration with the outcome of the notifications; refStatus and refOps
\* are what the attempt gives when every notification is delivered
ClaudeIterationNotify(patch, n, mode, cstatus, bstatus, tstatus, nt) ==
    /\ pc["claude"] = "process"
    /\ \E ref \in {process_card(git, cur["claude"], patch, <<"auto", n>>, mode, "ok",
                                cstatus, bstatus, tstatus)} :
       \E r \in {process_card_notify(ref, nt)} :
           /\ git' = r.g
           /\ results' = IF r.att.raised THEN results
                         ELSE results \cup {<<"claude", r.att.id, r.att.status>>}
           /\ EndIteration("claude", [r.att EXCEPT !.refStatus = ref.att.status,
                                                   !.refOps = ref.att.ops])
    /\ UNCHANGED <<cfg, card, now, artifacts, claims, contended, bot>>

\* claude_runner.main_loop when KeyboardInterrupt arrives during process_card: no
\* result file, the finally block's move, then `except KeyboardInterrupt: break`
ClaudeInterrupted(patch, n, mode, cut) ==
    /\ pc["claude"] = "process"
    /\ Readable(card[cur["claude"]])
    /\ card[cur["claude"]].kind = "task"
    /\ cut # "generate_patch" => StageAccepts(patch) /\ mode # "fail"
    /\ LET r    == interrupted_process_card(git, cur["claude"], patch, <<"auto", n>>, mode, cut)
           dest == Destination("claude", cur["claude"], r.att.status)
       IN  /\ git' = r.g
           /\ files' = FilesAfter("claude", cur["claude"], dest)
           /\ last' = [r.att EXCEPT !.partition = dest]
           /\ pc' = [pc EXCEPT !["claude"] = IF dest = "error" THEN LoopAfterError
                                             ELSE "stopped"]
    /\ batch' = [batch EXCEPT !["claude"] = <<>>]
    /\ cur' = [cur EXCEPT !["claude"] = 0]
    /\ UNCHANGED <<cfg, card, now, results, artifacts, claims, contended, bot>>

\* KeyboardInterrupt during time.sleep or between two files of the listing
Shutdown(r) ==
    /\ pc[r] \in {"poll", "claim"}
    /\ pc' = [pc EXCEPT ![r] = "stopped"]
    /\ batch' = [batch EXCEPT ![r] = <<>>]
    /\ last' = NoAtt
    /\ UNCHANGED <<cfg, files, card, now, results, artifacts, git, cur, claims, contended,
                   bot>>

\* claude_desktop_runner.main_loop: process_task(p), the report of an exception,
\* the move to tasks/done
DesktopIteration(sendOk, pulls, n, mode, wr, cstatus, bstatus, tstatus) ==
    /\ pc["desktop"] = "process"
    /\ \E r \in {desktop_process_task(git, cur["desktop"], sendOk, pulls, <<"desk", n>>,
                                     mode, wr, cstatus, bstatus, tstatus)} :
           /\ git' = r.g
           /\ EndIteration("desktop", r.att)
    /\ UNCHANGED <<cfg, card, now, results, artifacts, claims, contended, bot>>

\* process_task inside ahk_send_claude or ahk_pull_claude: subprocess.run is called
\* without a timeout and returns when the AutoHotkey process exits; here it has
\* not exited
DesktopBlocked ==
    /\ pc["desktop"] = "process"
    /\ Readable(card[cur["desktop"]])
    /\ pc' = [pc EXCEPT !["desktop"] = "blocked"]
    /\ last' = NoAtt
    /\ UNCHANGED <<cfg, files, card, now, results, artifacts, git, batch, cur, claims,
                   contended, bot>>

\* pipeline_orchestrator.main_loop: result = orchestrator.process_task(planning_file),
\* <stem>_complete.json unless process_task raised, the unlink of the planning file
PipelineIteration(planOk, output, prepOk) ==
    /\ pc["pipeline"] = "process"
    /\ \E r \in {pipeline_process_task(cur["pipeline"], planOk, output, prepOk)} :
           /\ artifacts' = artifacts \cup r.arts
           /\ results' = IF r.att.raised THEN results
                         ELSE results \cup {<<"pipeline", r.att.id, r.att.status>>}
           /\ EndIteration("pipeline", r.att)
    /\ UNCHANGED <<cfg, card, now, git, claims, contended, bot>>

(***************************************************************************)
(* Specifications.                                                         *)
(***************************************************************************)
\* the three runners draining one inbox
Init == Start(QueueConfigs)

Next ==
    \/ \E id \in Ids, text \in Directives : Enqueue(id, "task", text)
    \/ \E r \in Runners : List(r)
    \/ \E r \in Runners : Claim(r)
    \/ \E patch \in {T_BLANK, T_PROSE, T_TWO_DASHES, T_WS_DASHES}, n \in BranchSuffixes,
          mode \in ApplyModes :
          ClaudeIteration(patch, n, mode, "ok", 0, 0, 0)
    \/ \E pulls \in [1..MaxPolls -> {T_EMPTY, T_PROSE_THEN_PATCH}], n \in BranchSuffixes,
          mode \in ApplyModes :
          DesktopIteration(TRUE, pulls, n, mode, "ok", 0, 0, 0)
    \/ \E planOk \in BOOLEAN, output \in {T_EMPTY, T_FENCED, T_DIFF} :
          PipelineIteration(planOk, output, TRUE)

Spec == Init /\ [][Next]_vars

\* claude_runner alone on the queue, with everything its collaborators can return
InitClaude == Start(ClaudeConfigs)

NextClaude ==
    \/ \E id \in Ids, text \in Directives : Enqueue(id, "task", text)
    \/ Archive
    \/ List("claude")
    \/ Claim("claude")
    \/ \E patch \in PatchTexts, n \in BranchSuffixes, mode \in ApplyModes,
          cstatus \in ExitCodes, bstatus \in Statuses(cfg.build),
          tstatus \in Statuses(cfg.test) :
          ClaudeIteration(patch, n, mode, "ok", cstatus, bstatus, tstatus)

SpecClaude == InitClaude /\ [][NextClaude]_vars

\* claude_runner alone, with every outcome of the notifications
NotifyConfigs == {c \in ClaudeConfigs : c.locale = "utf-8" /\ ~c.test}

InitNotify == Start(NotifyConfigs)

NextNotify ==
    \/ \E id \in Ids : Enqueue(id, "task", D_ASCII)
    \/ List("claude")
    \/ Claim("claude")
    \/ \E patch \in {T_PROSE, T_DIFF}, n \in BranchSuffixes, mode \in {"strict", "fail"},
          cstatus \in ExitCodes, bstatus \in Statuses(cfg.build), nt \in NotifyOutcomes :
          ClaudeIterationNotify(patch, n, mode, cstatus, bstatus, 0, nt)

SpecNotify == InitNotify /\ [][NextNotify]_vars

\* the two patch-applying runners, with every outcome of writing the scratch file
PlainConfigs == {c \in Configs : ~c.build /\ ~c.test /\ ~c.planner /\ ~c.implementer
                                  /\ c.locale = "utf-8"}

InitApply == Start(PlainConfigs)

NextApply ==
    \/ \E id \in Ids : Enqueue(id, "task", D_ASCII)
    \/ \E r \in PatchRunners : List(r)
    \/ \E r \in PatchRunners : Claim(r)
    \/ \E n \in BranchSuffixes, mode \in ApplyModes, wr \in WriteOutcomes :
          ClaudeIteration(T_DIFF, n, mode, wr, 0, 0, 0)
    \/ \E pulls \in [1..MaxPolls -> {T_EMPTY, T_DIFF}], n \in BranchSuffixes,
          mode \in ApplyModes, wr \in WriteOutcomes :
          DesktopIteration(TRUE, pulls, n, mode, wr, 0, 0, 0)

SpecApply == InitApply /\ [][NextApply]_vars

\* the two patch-applying runners on a repository whose only branch is main, the
\* value of DEFAULT_BRANCH when the variable is not set, or master
MASTER == <<"master">>

InitRepo == \E b \in {DEFAULT_BRANCH, MASTER} : StartAt(PlainConfigs, b)

NextRepo ==
    \/ \E id \in Ids : Enqueue(id, "task", D_ASCII)
    \/ \E r \in PatchRunners : List(r)
    \/ \E r \in PatchRunners : Claim(r)
    \/ \E patch \in {T_PROSE, T_DIFF}, n \in BranchSuffixes, mode \in {"strict", "fail"},
          cstatus \in ExitCodes :
          ClaudeIteration(patch, n, mode, "ok", cstatus, 0, 0)
    \/ \E n \in BranchSuffixes, mode \in {"strict", "fail"}, cstatus \in ExitCodes :
          DesktopIteration(TRUE, [i \in 1..MaxPolls |-> T_DIFF], n, mode, "ok", cstatus, 0, 0)

SpecRepo == InitRepo /\ [][NextRepo]_vars

\* the three runners on an inbox that holds task records and note records
NoteConfigs == {c \in QueueConfigs : c.locale = "utf-8"}

InitNotes == Start(NoteConfigs)

NextNotes ==
    \/ \E id \in Ids, kind \in Kinds : Enqueue(id, kind, D_ASCII)
    \/ \E r \in Runners : List(r)
    \/ \E r \in Runners : Claim(r)
    \/ \E n \in BranchSuffixes : ClaudeIteration(T_DIFF, n, "strict", "ok", 0, 0, 0)
    \/ \E n \in BranchSuffixes :
          DesktopIteration(TRUE, [i \in 1..MaxPolls |-> T_DIFF], n, "strict", "ok", 0, 0, 0)
    \/ \E output \in {T_EMPTY, T_DIFF} : PipelineIteration(TRUE, output, TRUE)

SpecNotes == InitNotes /\ [][NextNotes]_vars

\* claude_runner and claude_desktop_runner, which share tasks/processing, while
\* the producer takes /task and /note messages
InitShared == Start(PlainConfigs)

NextShared ==
    \/ \E id \in Ids : Enqueue(id, "task", D_ASCII)
    \/ NoteRead(N_ASCII)
    \/ NoteExists
    \/ NoteWrite
    \/ \E r \in PatchRunners : List(r)
    \/ \E r \in PatchRunners : Claim(r)
    \/ ClaudeIteration(T_DIFF, 1, "strict", "ok", 0, 0, 0)
    \/ DesktopIteration(TRUE, [i \in 1..MaxPolls |-> T_DIFF], 1, "strict", "ok", 0, 0, 0)

SpecShared == InitShared /\ [][NextShared]_vars

\* claude_runner alone, with a shutdown signal that can arrive at any time
InitStop == Start(PlainConfigs)

NextStop ==
    \/ \E id \in Ids : Enqueue(id, "task", D_ASCII)
    \/ List("claude")
    \/ Claim("claude")
    \/ \E n \in BranchSuffixes, mode \in ApplyModes :
          ClaudeIteration(T_DIFF, n, mode, "ok", 0, 0, 0)
    \/ \E n \in BranchSuffixes, mode \in ApplyModes, cut \in CutPoints :
          ClaudeInterrupted(T_DIFF, n, mode, cut)
    \/ Shutdown("claude")

SpecStop == InitStop /\ [][NextStop]_vars

\* the producer alone: /task and /note messages, no runner started
BotConfigs == {c \in Configs : ~c.build /\ ~c.test /\ ~c.planner /\ ~c.implementer}

InitBot == Start(BotConfigs)

NextBot ==
    \/ \E id \in Ids, text \in NoteDirectives : Enqueue(id, "task", text)
    \/ \E text \in NoteTexts : cmd_note(text)

SpecBot == InitBot /\ [][NextBot]_vars

\* pipeline_orchestrator alone, with or without planner and implementer, and with
\* everything its collaborators can do
PipelineConfigs == {c \in Configs : ~c.build /\ ~c.test}

InitPipeline == Start(PipelineConfigs)

NextPipeline ==
    \/ \E id \in Ids, text \in Directives : Enqueue(id, "task", text)
    \/ List("pipeline")
    \/ Claim("pipeline")
    \/ \E planOk \in BOOLEAN, output \in ImplOutputs, prepOk \in BOOLEAN :
          PipelineIteration(planOk, output, prepOk)

SpecPipeline == InitPipeline /\ [][NextPipeline]_vars

\* claude_runner and pipeline_orchestrator as running processes: each loop takes
\* its next step sooner or later; records may be unreadable, moves may fail
LiveConfigs == {c \in Configs : ~c.build /\ ~c.test /\ c.planner /\ c.implementer}

InitLive == Start(LiveConfigs)

ClaudeStep ==
    \/ List("claude")
    \/ Claim("claude")
    \/ ClaudeIteration(T_DIFF, 1, "strict", "ok", 0, 0, 0)

PipelineStep ==
    \/ List("pipeline")
    \/ Claim("pipeline")
    \/ PipelineIteration(TRUE, T_DIFF, TRUE)

NextLive ==
    \/ \E id \in Ids, text \in Directives : Enqueue(id, "task", text)
    \/ ClaudeStep
    \/ PipelineStep

\* a loop that can list or move does so sooner or later, and a handler that was
\* called returns or raises
LoopRuns(r) == WF_vars(List(r)) /\ WF_vars(Claim(r)) /\ []<>(pc[r] # "process")

SpecLive == InitLive /\ [][NextLive]_vars /\ LoopRuns("claude") /\ LoopRuns("pipeline")

\* claude_desktop_runner as a running process: the loop takes its next step sooner
\* or later; a call of the AutoHotkey script returns or does not
InitWait == Start(PlainConfigs)

NextWait ==
    \/ \E id \in Ids, text \in Directives : Enqueue(id, "task", text)
    \/ List("desktop")
    \/ Claim("desktop")
    \/ \E sendOk \in BOOLEAN, pulls \in [1..MaxPolls -> {T_EMPTY, T_DIFF}],
          n \in BranchSuffixes, mode \in ApplyModes :
          DesktopIteration(sendOk, pulls, n, mode, "ok", 0, 0, 0)
    \/ DesktopBlocked

SpecWait ==
    /\ InitWait /\ [][NextWait]_vars
    /\ WF_vars(List("desktop")) /\ WF_vars(Claim("desktop"))
    /\ []<>(pc["desktop"] # "process")

\* the two validators on texts made of leading whitespace, a beginning that is a
\* recognised prefix, nearly one, or something else, and a rest
VPads == {<<>>, <<" ">>, <<"\n", "\t">>, <<"\r", "\n">>}
VCores == {<<>>, P_DIFF_GIT, P_INDEX, P_DASHES, P_PLUSES,
           <<"-", "-">>, <<"+", "+">>, <<"d", "i", "f", "f", " ", "-", "-", "g", "i">>,
           <<"i", "n", "d", "e", "x", ":">>, <<"o", "k">>, <<"x", "-", "-", "-">>,
           <<"-", " ", "-", "-">>}
VRests == {<<>>, <<" ", "a">>, <<"\n">>}
ValidatorInputs == {p \o c \o r : p \in VPads, c \in VCores, r \in VRests}

\* one call of each validator on the same text
Validate(text) ==
    /\ last' = [NoAtt EXCEPT !.step = "validate", !.output = text,
                             !.valid = IsValidPatch(text),
                             !.validImpl = ImplementerIsValidPatch(text)]
    /\ UNCHANGED <<cfg, files, card, now, results, artifacts, git, pc, batch, cur, claims,
                   contended, bot>>

InitValidator == Start(PlainConfigs)

NextValidator == \E text \in ValidatorInputs : Validate(text)

SpecValidator == InitValidator /\ [][NextValidator]_vars

(***************************************************************************)
(* Properties.  `last` is the attempt of the iteration that led to the     *)
(* state, so a predicate on `last` speaks about every finished iteration.  *)
(***************************************************************************)
Attempted == last.step = "attempt"

OpsOf(a) == {a.ops[i] : i \in DOMAIN a.ops}

\* the partitions that hold record id
Holders(id) == {p \in Partitions : id \in files[p]}

\* the attempt ends with git reset --hard, git clean -fd, git checkout <default>
RolledBack(a) ==
    /\ Len(a.ops) >= 3
    /\ SubSeq(a.ops, Len(a.ops) - 2, Len(a.ops)) = <<"reset", "clean", "checkout_default">>

\* no reset, clean or checkout runs after the commit
NothingAfterCommit(a) ==
    \A i \in DOMAIN a.ops : a.ops[i] = "commit" =>
        \A j \in (i + 1)..Len(a.ops) : a.ops[j] \notin {"reset", "clean", "checkout_default",
                                                        "checkout_new"}

\* C1 (as stated): at all times every record that has been dropped into the inbox
\* is in exactly one partition directory.
C1_ExactlyOnePartition ==
    \A id \in Ids : card[id] # NoCard => Cardinality(Holders(id)) = 1

\* C2: no two claimants obtain the same record: a record id is claimed at most
\* once over the whole run, and two runners never hold the same record.
C2_AtMostOneClaimant ==
    /\ \A id \in Ids : Len(claims[id]) <= 1
    /\ \A r1, r2 \in Runners : (r1 # r2 /\ cur[r1] # 0) => cur[r1] # cur[r2]

\* two runners listed the same record; one moved it, the move of the other failed
C2_Witness ==
    \E id \in contended : Len(claims[id]) = 1

\* C3 (as stated): records are claimed in creation order: while the loop holds a
\* record, every record still waiting in its listing was created later.
C3_CreationOrder ==
    \A r \in Runners : pc[r] = "process" =>
        \A i \in DOMAIN batch[r] : card[cur[r]].created < card[batch[r][i]].created

C5_ReportBeforeTerminal ==
    (Attempted /\ last.runner = "claude" /\ last.partition \in {"done", "failed"}) =>
        Reports(last) \cap {"success", "issues", "failure"} # {}

\* C6: when the collaborator's output is blank or rejected by the validator,
\* process_card resets the working copy to a clean state, checks out the default
\* branch, returns status failed and sends the failure notification.
C6_StageFailureRollsBack ==
    (Attempted /\ last.runner = "claude" /\ last.kind = "task"
        /\ (Blank(last.output) \/ ~IsValidPatch(last.output))) =>
        /\ RolledBack(last)
        /\ last.endBranch = DEFAULT_BRANCH /\ last.endClean
        /\ git.branch = DEFAULT_BRANCH /\ Clean(git)
        /\ last.status = "failed"
        /\ <<"claude", last.id, "failed">> \in results
        /\ Reports(last) = {"failure"}

\* the task branch was created and the validator rejected a non-blank output
C6_Witness ==
    /\ Attempted /\ last.runner = "claude" /\ last.kind = "task"
    /\ ~Blank(last.output) /\ ~IsValidPatch(last.output)
    /\ last.branch \in git.branches
    /\ last.status = "failed"

\* C7 (as stated): in every runner that applies patches, a failed apply_patch is
\* followed by reset, clean and checkout of the default branch, and leaves the
\* working copy clean on the default branch.
C7_ApplyFailureRollsBack ==
    (Attempted /\ last.runner \in PatchRunners /\ last.applied # None /\ ~last.applyOk) =>
        /\ RolledBack(last)
        /\ last.endBranch = DEFAULT_BRANCH /\ last.endClean

C9_OnlyValidPatchesApplied ==
    Attempted =>
        /\ last.applied # None => (~Blank(last.applied) /\ IsValidPatch(last.applied))
        /\ OpsOf(last) \cap {"write_scratch", "apply", "apply_fix", "add_all"} # {}
               => last.applied # None
        /\ (last.runner \in {"claude", "pipeline"} /\ last.output # None
              /\ (Blank(last.output) \/ ~IsValidPatch(last.output))) =>
               /\ last.applied = None
               /\ OpsOf(last) \cap {"write_scratch", "apply", "apply_fix", "add_all",
                                    "commit"} = {}
               /\ last.endStaged = {} /\ ~git.scratch
               /\ \A c \in git.commits : c.id # last.id
               /\ <<last.id, "patch">> \notin artifacts

\* a non-blank output that the validator rejects reached the patch stage
C9_Witness ==
    /\ Attempted /\ last.runner = "claude" /\ last.kind = "task"
    /\ ~Blank(last.output) /\ ~IsValidPatch(last.output)
    /\ "checkout_new" \in OpsOf(last)
    /\ last.applied = None

\* C10: apply_patch reports success exactly when the strict application succeeds
\* or the strict one fails and the tolerant one succeeds; in the second case the
\* tolerant application ran and the changes are staged when apply_patch returns.
C10_ApplyResult ==
    (Attempted /\ last.applied # None) =>
        /\ last.applyOk <=> (StrictStatus(last.mode) = 0
                             \/ (StrictStatus(last.mode) # 0 /\ FixStatus(last.mode) = 0))
        /\ (StrictStatus(last.mode) # 0 /\ FixStatus(last.mode) = 0) =>
               /\ last.applyOk
               /\ "apply_fix" \in OpsOf(last) /\ "add_all" \in OpsOf(last)
               /\ "patch" \in last.applyStaged
        /\ ~last.applyOk => "patch" \notin last.applyStaged

\* strict application failed, the tolerant one succeeded
C10_Witness ==
    /\ Attempted /\ last.applied # None
    /\ StrictStatus(last.mode) # 0 /\ FixStatus(last.mode) = 0
    /\ last.applyOk /\ "patch" \in last.applyStaged

\* C11 (as stated): on every exit path of apply_patch, also when writing the
\* scratch file raises, the scratch file does not exist in the repository
\* directory when apply_patch returns or raises.
C11_ScratchRemoved ==
    (Attempted /\ last.wr # "none") => ~last.applyScratch

\* C12 (as stated): for a claimed record of kind note, in every runner, no branch
\* is created, no collaborator is invoked, no patch is applied or committed, no
\* pipeline artifact is written, and the record goes to done with outcome skipped.
C12_NotesSkipped ==
    (Attempted /\ card[last.id].kind = "note") =>
        /\ last.status = "skipped"
        /\ last.partition = "done"
        /\ last.ops = <<>> /\ last.output = None /\ last.applied = None
        /\ last.stages = <<>>
        /\ \A c \in git.commits : c.id # last.id
        /\ \A a \in artifacts : a[1] # last.id

\* C13 (as stated): a note request creates no record and, when a task exists,
\* appends its text to the task created last: that task keeps its id, its previous
\* text is a prefix of its new text and the new text ends with the note text.
C13_NoteAppendsToLatest ==
    last.step = "note" =>
        /\ Cardinality(Created) = last.records
        /\ last.latest # 0 =>
              /\ last.status = "appended"
              /\ last.id = last.latest
              /\ Decode(card[last.latest].bytes, cfg.locale)
                     = last.prev \o NOTE_PREFIX \o last.note

\* the stages process_task can start, in their order, for a given first stage
StageOrder(first) == <<first, "implementation", "cursor_prep">>

IsPrefix(a, b) == Len(a) <= Len(b) /\ SubSeq(b, 1, Len(a)) = a

\* C14: in process_task the implement stage is not started and no patch artifact
\* is written for a task unless a plan was produced for it earlier in the same
\* attempt: the planner's plan (saved as <id>_plan.json) when the planner is
\* configured, the fallback plan otherwise; the plan stage always comes first.
C14_PlanBeforeImplementation ==
    (Attempted /\ last.runner = "pipeline"
        /\ (\E i \in DOMAIN last.stages : last.stages[i] = "implementation"
            \/ <<last.id, "patch">> \in artifacts)) =>
        /\ last.plan = (IF cfg.planner THEN "plan" ELSE "fallback")
        /\ cfg.planner => <<last.id, "plan.json">> \in artifacts
        /\ Len(last.stages) >= 2
        /\ last.stages[1] = (IF cfg.planner THEN "planning" ELSE "fallback_plan")
        /\ last.stages[2] = "implementation"

\* the planner is configured, its plan was saved, and the patch was written
C14_Witness ==
    /\ Attempted /\ last.runner = "pipeline" /\ cfg.planner
    /\ last.plan = "plan"
    /\ <<last.id, "plan.json">> \in artifacts /\ <<last.id, "patch">> \in artifacts

\* C15: when the planner is not configured, every attempt of process_task that has
\* loaded its record ends with result status success or failed, having used the
\* fallback plan, whatever the implementer does (valid patch, blank or invalid
\* output, exception, not configured): success exactly with the ready report,
\* failed with the failure report, and the result is handed to the loop.
C15_FallbackReachesReadyOrFailed ==
    (Attempted /\ last.runner = "pipeline" /\ ~cfg.planner /\ last.kind # "none") =>
        /\ last.status \in {"success", "failed"}
        /\ ~last.raised
        /\ <<"pipeline", last.id, last.status>> \in results
        /\ last.status = "success" <=> Reports(last) = {"ready"}
        /\ last.status = "failed" <=> Reports(last) = {"failure"}
        /\ <<last.id, "plan.json">> \notin artifacts
        /\ last.plan = "fallback"
        /\ last.stages # <<>> /\ last.stages[1] = "fallback_plan"

\* without a planner the implementer raised and the attempt ended failed
C15_Witness ==
    /\ Attempted /\ last.runner = "pipeline" /\ ~cfg.planner
    /\ last.output = RAISED
    /\ last.plan = "fallback"
    /\ last.status = "failed"

\* C16: within one attempt of process_task the stages started are a prefix of
\* plan, implementation, cursor preparation, each at most once; after a failed
\* stage no later stage starts; the status is success only if all three ran in
\* that order, the implementer returned a patch its validator accepts and the
\* Cursor package was written after the patch; otherwise the status is failed.
C16_StagesInOrder ==
    (Attempted /\ last.runner = "pipeline" /\ last.kind # "none") =>
        /\ \/ IsPrefix(last.stages, StageOrder("planning"))
           \/ IsPrefix(last.stages, StageOrder("fallback_plan"))
        /\ last.status \in {"success", "failed"}
        /\ last.status = "success" =>
              /\ Len(last.stages) = 3
              /\ last.plan # "none"
              /\ ImplementerIsValidPatch(last.output)
              /\ {<<last.id, "patch">>, <<last.id, "ready.json">>} \subseteq artifacts
              /\ \A n \in CursorPackage : <<last.id, n>> \in artifacts
        /\ last.plan = "none" => Len(last.stages) <= 1
        /\ (last.output = None \/ ~ImplementerIsValidPatch(last.output)) =>
              /\ Len(last.stages) <= 2
              /\ <<last.id, "patch">> \notin artifacts
        /\ last.status = "failed" => <<last.id, "ready.json">> \notin artifacts

\* the implement stage failed on a rejected output and cursor preparation never ran
C16_Witness ==
    /\ Attempted /\ last.runner = "pipeline"
    /\ last.stages = <<"planning", "implementation">>
    /\ last.output # None /\ last.output # RAISED /\ ~ImplementerIsValidPatch(last.output)
    /\ last.status = "failed"

\* C17: no error raised while claiming or processing a record ends a poll loop,
\* and every record that is in the inbox, also one left unclaimed in a batch that
\* an error interrupted, is eventually claimed.
C17_ErrorsDoNotStopPolling ==
    /\ [](\A r \in Runners : pc[r] \in {"poll", "claim", "process"})
    /\ \A id \in Ids : (id \in files["inbox"]) ~> (id \notin files["inbox"] /\ claims[id] # <<>>)

\* an attempt of claude_runner raised, which interrupted its batch, while a record
\* is still in the inbox; before that a move of a claim had failed
C17_Witness ==
    /\ Attempted /\ last.runner = "claude" /\ last.raised
    /\ contended # {}
    /\ files["inbox"] # {}

\* C18 (as stated): when reading or parsing the file of a claimed record fails,
\* the record is neither deleted nor moved to a terminal partition: it is still in
\* the store, outside done, failed and archive, where the next poll can claim it.
C18_UnreadableRecordKept ==
    (Attempted /\ ~Readable(card[last.id])) =>
        /\ Holders(last.id) # {}
        /\ Holders(last.id) \cap {"done", "failed", "archive"} = {}
        /\ last.id \in files["inbox"]

\* C19 (as stated): the completion step of every runner tolerates a missing
\* processing-side file: no attempt ends with the final move or unlink raising.
C19_CompletionTolerant == Attempted => last.partition # "error"

\* C20 (as stated): a shutdown signal never cuts an attempt short: every attempt
\* on a task record ends as success or failed, with its rollback or commit, its
\* result file and its report, and a loop that has stopped did not stop in an attempt.
C20_NoAttemptCutShort ==
    (Attempted /\ last.runner = "claude" /\ last.kind = "task") =>
        /\ last.status \in {"success", "failed"}
        /\ last.notes # <<>>
        /\ <<"claude", last.id, last.status>> \in results
        /\ pc["claude"] # "stopped"


\* C21: a failed notification never changes a task's outcome: whatever happens to
\* the notifications of an attempt, its status, the git commands it ran and the
\* partition its record ends in are those of the attempt whose notifications
\* were all delivered.
C21_NotifyFailureIsHarmless ==
    (Attempted /\ last.notify # "none") =>
        /\ last.status = last.refStatus
        /\ last.ops = last.refOps
        /\ last.partition = TerminalPartition(last.refStatus)
        /\ ~last.raised

C21_Witness ==
    /\ Attempted /\ last.notify = "raised"
    /\ last.status = "success" /\ last.notes # <<>>
    /\ last.id \in files["done"]


\* C22 (as stated): when the checkout of the default branch or the creation of the
\* new branch exits nonzero, create_branch fails and the attempt does not go on
\* to apply the patch.
C22_CreateBranchFailureStopsAttempt ==
    (Attempted /\ last.runner \in PatchRunners /\ last.createFailed) =>
        /\ last.applied = None
        /\ "write_scratch" \notin OpsOf(last)


\* C23: the core never deletes a branch: no step removes a name from the set of
\* branches, and after a failed attempt of claude_runner the branch named for the
\* attempt exists while the working copy is back on the default branch.
C23_BranchesOnlyGrow ==
    /\ [][git.branches \subseteq git.branches']_vars
    /\ []((Attempted /\ last.runner = "claude" /\ last.status = "failed") =>
            /\ last.branch \in git.branches
            /\ git.branch = DEFAULT_BRANCH)

C23_Witness ==
    /\ Attempted /\ last.runner = "claude" /\ last.status = "failed"
    /\ last.applied # None /\ ~last.createFailed
    /\ last.branch \in git.branches /\ last.branch # DEFAULT_BRANCH
    /\ git.branch = DEFAULT_BRANCH
    /\ Cardinality(git.branches) = 3


\* the only runner that has claimed a record so far is r
OnlyRunner(r) == \A id \in Ids : \A i \in DOMAIN claims[id] : claims[id][i] = r

\* C24: a runner processes records one at a time: while only one runner works on
\* tasks/processing, the directory holds at most one record, which is the record
\* the runner is processing, and it is empty whenever the runner is between records.
C24_OneRecordAtATime ==
    \A r \in PatchRunners : OnlyRunner(r) =>
        /\ Cardinality(files["processing"]) <= 1
        /\ files["processing"] \subseteq {cur[r]}
        /\ pc[r] # "process" => files["processing"] = {}

\* a runner that has finished one record holds the next, alone
C24_Witness ==
    \E r \in PatchRunners :
        /\ OnlyRunner(r) /\ pc[r] = "process"
        /\ files["done"] # {} /\ files["processing"] = {cur[r]}
        /\ \E id \in files["done"] : claims[id] = <<r>>


\* C25 (as stated): no interaction with the collaborator blocks the loop: every
\* record the runner has moved to tasks/processing is eventually moved on to a
\* terminal partition, with a patch, a failure or the timeout of the wait.
C25_WaitAlwaysEnds ==
    \A id \in Ids : (id \in files["processing"]) ~> (id \in files["done"])


RecordFiles(fs) == Cardinality({pr \in Partitions \X Ids : pr[2] \in fs[pr[1]]})

\* C27: archiving the done partition deletes nothing: the step that empties
\* tasks/done puts every file that was there into the archive under its name,
\* touches no other partition, and leaves the number of record files as it was.
C27_ArchiveKeepsEveryFile ==
    [][(files["done"] # {} /\ files'["done"] = {}) =>
          /\ files'["archive"] = files["archive"] \cup files["done"]
          /\ \A p \in Partitions \ {"done", "archive"} : files'[p] = files[p]
          /\ RecordFiles(files') = RecordFiles(files)
          /\ results' = results]_vars

\* two records archived, by one /clear or two
C27_Witness ==
    /\ Cardinality(files["archive"]) = 2
    /\ files["done"] = {}
    /\ last = NoAtt


\* the text without its leading and trailing whitespace, by positions: from the
\* first to the last character that is not whitespace
Trimmed(s) ==
    LET keep == {i \in DOMAIN s : s[i] \notin Whitespace}
    IN  IF keep = {} THEN <<>>
        ELSE SubSeq(s, CHOOSE i \in keep : \A j \in keep : i <= j,
                       CHOOSE i \in keep : \A j \in keep : j <= i)

\* diff --git, Index:, ---, +++
RecognisedPrefixes ==
    {<<"d", "i", "f", "f", " ", "-", "-", "g", "i", "t">>, <<"I", "n", "d", "e", "x", ":">>,
     <<"-", "-", "-">>, <<"+", "+", "+">>}

BeginsWithPrefix(t) ==
    \E p \in RecognisedPrefixes : Len(t) >= Len(p) /\ \A i \in DOMAIN p : t[i] = p[i]

\* C28: the validator answers true exactly when the text without leading and
\* trailing whitespace begins with diff --git, Index:, --- or +++, so false for
\* blank text, and the validators of claude_runner and pipeline_orchestrator agree.
C28_ValidatorIsPrefixTest ==
    last.step = "validate" =>
        /\ last.valid = BeginsWithPrefix(Trimmed(last.output))
        /\ Trimmed(last.output) = <<>> => ~last.valid
        /\ last.validImpl = last.valid

\* a recognised prefix after leading whitespace is accepted by both
C28_Witness ==
    /\ last.step = "validate"
    /\ last.output = <<"\n", "\t">> \o P_PLUSES \o <<" ", "a">>
    /\ last.valid /\ last.validImpl


\* C29 (as stated): no rollback after the patch was applied: when the commit fails,
\* the attempt is failed and reported as a failure, and the working copy is left
\* as apply_patch left it, with the applied changes staged and no reset, clean or
\* checkout of the default branch after the commit.
C29_NoRollbackAfterApply ==
    (Attempted /\ last.runner = "claude" /\ last.applyOk /\ last.commitStatus # 0) =>
        /\ last.status = "failed"
        /\ Reports(last) = {"failure"}
        /\ ~RolledBack(last)
        /\ NothingAfterCommit(last)
        /\ last.endStaged = last.applyStaged


\* C30 (as stated): while the runner is not killed, every record it has moved to
\* tasks/processing is eventually moved out of tasks/processing.
C30_ProcessingIsLeft ==
    \A id \in Ids : [](id \in files["processing"] => <>(id \notin files["processing"]))


\* C31: a failed task is never attempted again: every record is claimed at most
\* once over the whole run, and no step puts a record that has left the inbox
\* back into the inbox.
C31_NoRetry ==
    /\ [](\A id \in Ids : Len(claims[id]) <= 1)
    /\ [][\A id \in Ids : (card[id] # NoCard /\ id \notin files["inbox"]) =>
                               id \notin files'["inbox"]]_vars

\* after a failed attempt the runner has polled again and holds another record
C31_Witness ==
    \E id \in Ids :
        /\ <<"claude", id, "failed">> \in results
        /\ claims[id] = <<"claude">>
        /\ id \in files["done"]
        /\ cur["claude"] \notin {0, id}


(***************************************************************************)
(* The plan of the pipeline: the planner's reply parsed by create_plan, or *)
(* the fallback plan when the planner is not configured.                   *)
(***************************************************************************)
\* what precedes the section: nothing, prose, a header in another spelling
PlanPres ==
    {<<>>,
     <<"p", "\n", "\n">>,
     <<"C", "o", "m", "p", "o", "n", "e", "n", "t", "s", ":", "\n", "-", " ", "q", "\n", "\n">>}
\* what follows the header: bullets, numbered lines, file lines, blank lines
PlanBodies ==
    {<<"\n", "-", " ", "a", "\n", "-", " ", "b">>,
     <<"\n", "1", ".", " ", "x", "\n", "2", ".", " ", "y">>,
     <<"\n", "-", " ", "s", "/", "a", ".", "c", "p", "p", ":", " ", "m", "\n", "b", ".", "h">>,
     <<" ", "-", " ", "a", "\n", "\n", "-", " ", "c">>,
     <<>>,
     <<"\n", "\n", "-", " ", "a">>,
     <<"\n", " ", " ", "-", " ", "a", " ", "\n", " ", "x", "\n", "-">>,
     <<"\n", " ", "1", ".", " ", "x", "\n", "1">>}
\* what follows the section: nothing, another section, the same header again
PlanPosts ==
    {<<>>,
     <<"\n", "\n", "I", "M", "P", "L", "E", "M", "E", "N", "T", "A", "T", "I", "O", "N", " ", "S", "T", "E", "P", "S", ":", "\n", "1", ".", " ", "z">>,
     <<"\n", "\n", "C", "O", "M", "P", "O", "N", "E", "N", "T", "S", ":", "\n", "-", " ", "r">>}

PlanTexts ==
    {pre \o h \o body \o post :
        pre \in PlanPres, h \in Headers \cup {<<>>}, body \in PlanBodies, post \in PlanPosts}

\* create_plan structures the planner's reply
ParsePlan(plan_text) ==
    /\ cfg.planner
    /\ last' = [NoAtt EXCEPT !.step = "parse_plan", !.output = plan_text,
                             !.parsed = parse_plan(plan_text)]
    /\ UNCHANGED <<cfg, files, card, now, results, artifacts, git, pc, batch, cur, claims,
                   contended, bot>>

\* process_task without a planner takes the fallback plan
FallbackPlanCall(directive) ==
    /\ ~cfg.planner
    /\ last' = [NoAtt EXCEPT !.step = "fallback_plan", !.fallback = FallbackPlan(directive)]
    /\ UNCHANGED <<cfg, files, card, now, results, artifacts, git, pc, batch, cur, claims,
                   contended, bot>>

InitPlan == Start(PipelineConfigs)

NextPlan ==
    \/ \E plan_text \in PlanTexts : ParsePlan(plan_text)
    \/ \E directive \in NoteDirectives : FallbackPlanCall(directive)

SpecPlan == InitPlan /\ [][NextPlan]_vars

\* C32: the fallback plan has the directive as its only implementation step.
C32_FallbackStepIsDirective ==
    last.step = "fallback_plan" =>
        last.fallback.steps = <<last.fallback.original_directive>>

\* C36: no extractor fails on any plan text, each returns a list, and the list is
\* empty when the text does not contain the header of its section.
C36_ExtractorsNeverFail ==
    last.step = "parse_plan" =>
        /\ \A f \in {"components", "steps", "files", "acceptance"} :
              ~last.parsed[f].raised
        /\ ~Contains(last.output, H_COMPONENTS) => last.parsed.components.value = <<>>
        /\ ~Contains(last.output, H_STEPS) => last.parsed.steps.value = <<>>
        /\ ~Contains(last.output, H_FILES) => last.parsed.files.value = <<>>
        /\ ~Contains(last.output, H_ACCEPTANCE) => last.parsed.acceptance.value = <<>>

\* a reply with a components section of two items and no other header
C36_Witness ==
    /\ last.step = "parse_plan"
    /\ Len(last.parsed.components.value) = 2
    /\ \A h \in Headers \ {H_COMPONENTS} : ~Contains(last.output, h)
    /\ last.parsed.steps = NoList /\ last.parsed.files = NoList
    /\ last.parsed.acceptance = NoList


\* the commands of an attempt that invoke the patch tool
IsPatchToolOp(o) == o \in {"apply", "apply_fix"}
PatchToolOps(a) == SelectSeq(a.ops, IsPatchToolOp)

\* C33: one call of apply_patch invokes the patch tool at most twice: the strict
\* attempt first, the whitespace-tolerant attempt once and only after the strict
\* attempt failed, and nothing after that.
C33_AtMostTwoApplyAttempts ==
    (Attempted /\ last.runner \in PatchRunners) =>
        /\ PatchToolOps(last) \in {<<>>, <<"apply">>, <<"apply", "apply_fix">>}
        /\ PatchToolOps(last) = <<"apply">> => last.mode = "strict"
        /\ PatchToolOps(last) = <<"apply", "apply_fix">> => last.mode # "strict"

\* the strict attempt and the whitespace-tolerant attempt both failed
C33_Witness ==
    /\ Attempted /\ last.runner \in PatchRunners
    /\ last.mode = "fail" /\ ~last.applyOk
    /\ PatchToolOps(last) = <<"apply", "apply_fix">>


\* C34: a build or test command that is not configured is not run and its step is
\* skipped; a skipped step counts as passed: with both skipped, an attempt whose
\* patch was applied and committed sends the plain success report, which names the
\* branch of the attempt.
C34_SkippedStepsPass ==
    (Attempted /\ last.runner = "claude" /\ last.applyOk /\ last.commitStatus = 0) =>
        /\ ~cfg.build => (last.build = "skipped" /\ "build" \notin OpsOf(last))
        /\ ~cfg.test => (last.tests = "skipped" /\ "test" \notin OpsOf(last))
        /\ (~cfg.build /\ ~cfg.test) =>
              /\ last.status = "success" /\ last.notes = <<"success">>
              /\ last.branch \in git.branches
              /\ ~last.createFailed => last.commitBranch = last.branch

\* no command is configured, the patch is committed on the new branch and the
\* success report is sent
C34_Witness ==
    /\ Attempted /\ last.runner = "claude"
    /\ ~cfg.build /\ ~cfg.test
    /\ last.applyOk /\ last.commitStatus = 0 /\ ~last.createFailed
    /\ last.build = "skipped" /\ last.tests = "skipped"
    /\ last.notes = <<"success">> /\ last.commitBranch = last.branch


\* the files a context record refers to
ContextRefs(c) == {c.patch_file, c.instructions_file}

\* C35: after a successful integrate stage the task directory holds the patch, the
\* instructions, the test checklist, the integration guide and the context record,
\* and the context record refers to each of the other four files.
C35_ContextReferencesPackage ==
    (Attempted /\ last.runner = "pipeline" /\ last.status = "success") =>
        /\ \A n \in CursorPackage : <<last.id, n>> \in artifacts
        /\ \A n \in CursorPackage \ {"cursor_context.json"} :
              <<last.id, n>> \in ContextRefs(last.context)


\* C37: the scratch patch file that apply_patch writes is never among the staged
\* changes an attempt leaves after applying, and never in a commit.
C37_ScratchNeverCommitted ==
    /\ (Attempted /\ last.runner \in PatchRunners) => "scratch" \notin last.applyStaged
    /\ \A b \in git.branches : "scratch" \notin git.tip[b]


\* C38: a generated patch is never committed on the default branch, also when the
\* branch could not be created: every commit of an attempt is made on the branch
\* named for that attempt.
C38_NeverOnDefaultBranch ==
    /\ \A c \in git.commits : c.branch # DEFAULT_BRANCH
    /\ (Attempted /\ last.runner \in PatchRunners /\ last.applyOk
            /\ last.commitStatus = 0) => last.commitBranch = last.branch


\* claude_runner alone while the producer takes /task messages and handles /note
\* file operation by file operation
InitNoteRace == Start(PlainConfigs)

NextNoteRace ==
    \/ \E id \in Ids : Enqueue(id, "task", D_ASCII)
    \/ NoteRead(N_ASCII)
    \/ NoteExists
    \/ NoteWrite
    \/ List("claude")
    \/ Claim("claude")
    \/ \E n \in BranchSuffixes, mode \in {"strict", "fail"} :
          ClaudeIteration(T_DIFF, n, mode, "ok", 0, 0, 0)

SpecNoteRace == InitNoteRace /\ [][NextNoteRace]_vars

\* C39: a /note handled while the runner claims the same task neither duplicates
\* nor revives the record: in every state each record is in at most one
\* partition, and no record is claimed more than once.
C39_NoteNeverDuplicates ==
    \A id \in Ids :
        /\ Cardinality(Holders(id)) <= 1
        /\ Len(claims[id]) <= 1


\* claude_runner alone while the producer writes new records into the inbox file
\* operation by file operation
InitWrite == Start(PlainConfigs)

NextWrite ==
    \/ \E id \in Ids, text \in Directives : TaskOpen(id, "task", text)
    \/ TaskWrite
    \/ List("claude")
    \/ Claim("claude")
    \/ \E n \in BranchSuffixes, mode \in {"strict", "fail"} :
          ClaudeIteration(T_DIFF, n, mode, "ok", 0, 0, 0)

SpecWrite == InitWrite /\ [][NextWrite]_vars

\* C40: a record is claimed only after it is completely written: no record that
\* has left the inbox is still being written, and no attempt loads a record whose
\* document is not all there.
C40_ClaimedOnlyWhenWritten ==
    /\ \A id \in Created : id \notin files["inbox"] => card[id].bytes # <<>>
    /\ Attempted => card[last.id].bytes # <<>>

=============================================================================
